---- MODULE Spec2Model ----
(***************************************************************************)
(* Model of std/assembly/runtime.ts: the common object header, the block   *)
(* size policy ADJUST and the lifecycle operations ALLOC, REALLOC, FREE,   *)
(* REGISTER and LINK, over a flat little-endian byte memory (wasm32).      *)
(***************************************************************************)
EXTENDS Integers, Sequences, FiniteSets, TLC

VARIABLES
  GC,       \* build flag: gc.register and gc.link are implemented
  mem,      \* linear memory, one byte per address
  blocks,   \* the memory manager's live blocks, as <<start, size>>
  refs,     \* the payload pointers the caller holds
  calls,    \* memory manager / collector calls made by the last operation
  last,     \* the last operation: its name, arguments, locals and result
  trapped,  \* "none", or the assertion that aborted the program
  nops,     \* number of operations performed so far
  e2e,      \* progress of the scripted scenario (SpecE2E, SpecRoundTrip)
  rep       \* memory.repeat: its arguments, locals and position

vars == <<GC, mem, blocks, refs, calls, last, trapped, nops, e2e, rep>>

----------------------------------------------------------------------------
\* Bounds of the model.

\* heap size in allocation units of AL_MASK + 1 bytes
HeapUnits == 12
\* number of operations in a run
MaxOps == 5
\* number of distinct managed classes T that REGISTER<T> is instantiated for
NumTypes == 2
\* ADJUST is evaluated on 0 .. MaxSmallPayload and around every power of two
MaxSmallPayload == 70

\* payload sizes the caller asks for
PayloadSizes == {10, 20, 40}
Types == 1..NumTypes

----------------------------------------------------------------------------
\* 32-bit values as they lie in memory (little-endian).

U32(n) == <<n % 256, (n \div 256) % 256, (n \div 65536) % 256, (n \div 16777216) % 256>>
Val(b) == b[1] + 256 * b[2] + 65536 * b[3] + 16777216 * b[4]

\* Memory is the sequence of its bytes: the byte at address a is m[a + 1].
Load8(m, a) == m[a + 1]
Load32(m, a) == SubSeq(m, a + 1, a + 4)
\* the n bytes at dst replaced by the sequence bytes
StoreBytes(m, dst, bytes) ==
  SubSeq(m, 1, dst) \o bytes \o SubSeq(m, dst + Len(bytes) + 1, Len(m))
Store32(m, a, b) == StoreBytes(m, a, b)

\* memory.fill / memset
fill(m, dst, c, n) == StoreBytes(m, dst, [i \in 1..n |-> c])
\* memory.copy / memmove: every source byte is read before it is overwritten
copy(m, dst, src, n) == StoreBytes(m, dst, SubSeq(m, src + 1, src + n))

----------------------------------------------------------------------------
\* Header layout and constants.

AL_MASK == 7
MAX_SIZE_32 == 1073741824

OffClassId == 0
OffPayloadSize == 4
OffGc1 == 8
OffGc2 == 12
\* offsetof<HEADER>(): a u32, a u32 and two 32-bit usize fields
SizeofHeader == 16

AlignUp(x) == ((x + AL_MASK) \div (AL_MASK + 1)) * (AL_MASK + 1)

\* full header if GC is present, half header if GC is absent
HeaderSizeFor ==
  [gc \in BOOLEAN |-> IF gc THEN AlignUp(SizeofHeader) ELSE AlignUp(OffGc1)]
HEADER_SIZE == HeaderSizeFor[GC]

\* 0xA55E4B17
HEADER_MAGIC == <<23, 75, 94, 165>>

\* gc.classId<T>(): a compiler-assigned id, never the magic value
gcClassId(T) == U32(T)

classIdOf(m, header) == Load32(m, header + OffClassId)
payloadSizeOf(m, header) == Val(Load32(m, header + OffPayloadSize))
gc1Of(m, header) == Load32(m, header + OffGc1)
gc2Of(m, header) == Load32(m, header + OffGc2)

----------------------------------------------------------------------------
\* ADJUST

RECURSIVE BitLen(_)
BitLen(x) == IF x = 0 THEN 0 ELSE 1 + BitLen(x \div 2)
\* clz<u32>
clz(x) == 32 - BitLen(x)
\* <usize>1 << k on wasm32: the shift count is taken modulo 32
Shl1(k) == 2 ^ (k % 32)

ADJUST_NoMinusOne(payloadSize) == Shl1(32 - clz(payloadSize + HEADER_SIZE))
ADJUST(payloadSize) == Shl1(32 - clz(payloadSize + HEADER_SIZE - 1))

----------------------------------------------------------------------------
\* Memory layout: null page, one statically placed object, then the heap.

StaticBlock == 8
StaticPayload == 4
Layout ==
  [gc \in BOOLEAN |->
    LET sref == StaticBlock + HeaderSizeFor[gc]
        base == AlignUp(sref + StaticPayload)
    IN [staticRef |-> sref,
        heapBase |-> base,
        memSize |-> base + HeapUnits * (AL_MASK + 1),
        starts |-> {base + k * (AL_MASK + 1) : k \in 0..(HeapUnits - 1)}]]
StaticRef == Layout[GC].staticRef
HEAP_BASE == Layout[GC].heapBase
MemSize == Layout[GC].memSize

\* what the caller writes into byte i of the payload at ref
Pattern(ref, i) == ((ref + i) % 255) + 1
Data(ref, n) == [i \in 1..n |-> Pattern(ref, i - 1)]

----------------------------------------------------------------------------
\* The memory manager behind memory.allocate / memory.free: first fit.

Overlaps(a, size, b) == a < b[1] + b[2] /\ b[1] < a + size
Fits(a, size) ==
  /\ a + size <= MemSize
  /\ \A b \in blocks : ~Overlaps(a, size, b)
Candidates(size) == {a \in Layout[GC].starts : Fits(a, size)}
CanAllocate(size) == Candidates(size) # {}
allocate(size) ==
  LET free == Candidates(size)
  IN CHOOSE a \in free : \A c \in free : a <= c
BlockAt(a) == {b \in blocks : b[1] = a}

NoOp == [op |-> "none", ref |-> 0, n |-> 0, old |-> 0, ret |-> 0]
\* no call of memory.repeat is under way
RepIdle == [pc |-> "idle", dst |-> 0, src |-> 0, srcLength |-> 0, count |-> 0,
            index |-> 0, total |-> 0, copies |-> 0]

\* an operation runs only while no assertion has aborted the program
Running ==
  /\ trapped = "none"
  /\ nops < MaxOps
  /\ nops' = nops + 1

----------------------------------------------------------------------------
\* Initial state: zeroed memory holding the static object.

StaticImage(gc, cls) ==
  LET sref == Layout[gc].staticRef
      z == [x \in 1..Layout[gc].memSize |-> 0]
      m1 == Store32(z, StaticBlock + OffClassId, cls)
      m2 == Store32(m1, StaticBlock + OffPayloadSize, U32(StaticPayload))
  IN StoreBytes(m2, sref, Data(sref, StaticPayload))

InitWith(gcs) ==
  /\ GC \in gcs
  /\ \E cls \in {gcClassId(1), HEADER_MAGIC} : mem = StaticImage(GC, cls)
  /\ blocks = {}
  /\ refs = {}
  /\ calls = <<>>
  /\ last = NoOp
  /\ trapped = "none"
  /\ nops = 0
  /\ e2e = <<>>
  /\ rep = RepIdle

Init == InitWith(BOOLEAN)

----------------------------------------------------------------------------
\* ALLOC

\* lines 49-56: the header and the zeroed payload
AllocImage_NoFill(m, block, payloadSize) ==
  LET m1 == Store32(m, block + OffClassId, HEADER_MAGIC)
      m2 == Store32(m1, block + OffPayloadSize, U32(payloadSize))
  IN IF GC THEN Store32(Store32(m2, block + OffGc1, U32(0)), block + OffGc2, U32(0))
           ELSE m2
AllocImage(m, block, payloadSize) ==
  LET m1 == Store32(m, block + OffClassId, HEADER_MAGIC)
      m2 == Store32(m1, block + OffPayloadSize, U32(payloadSize))
      m3 == IF GC THEN Store32(Store32(m2, block + OffGc1, U32(0)), block + OffGc2, U32(0))
                  ELSE m2
  IN fill(m3, block + HEADER_SIZE, 0, payloadSize)

ALLOC(payloadSize) ==
  /\ Running
  /\ CanAllocate(ADJUST(payloadSize))
  /\ LET size == ADJUST(payloadSize)
         block == allocate(size)
         ref == block + HEADER_SIZE
     IN /\ mem' = AllocImage(mem, block, payloadSize)
        /\ blocks' = blocks \cup {<<block, size>>}
        /\ calls' = << <<"allocate", size, block>> >>
        /\ refs' = refs \cup {ref}
        /\ last' = [op |-> "ALLOC", ref |-> 0, n |-> payloadSize, old |-> 0, ret |-> ref]
  /\ UNCHANGED <<GC, trapped>>

----------------------------------------------------------------------------
\* The caller fills the payload it owns.

WRITE(ref) ==
  /\ Running
  /\ ref \in refs
  /\ LET n == payloadSizeOf(mem, ref - HEADER_SIZE)
     IN mem' = StoreBytes(mem, ref, Data(ref, n))
  /\ calls' = <<>>
  /\ last' = [op |-> "WRITE", ref |-> ref, n |-> 0, old |-> 0, ret |-> 0]
  /\ UNCHANGED <<GC, blocks, refs, trapped>>

----------------------------------------------------------------------------
\* unref: the assertion that fails, or "none"

unref_NoClassCheck(m, ref) ==
  IF ~(ref >= HEAP_BASE + HEADER_SIZE) THEN "must be a heap object"
  ELSE "none"
unref(m, ref) ==
  IF ~(ref >= HEAP_BASE + HEADER_SIZE) THEN "must be a heap object"
  ELSE IF classIdOf(m, ref - HEADER_SIZE) # HEADER_MAGIC THEN "must be unregistered"
  ELSE "none"

----------------------------------------------------------------------------
\* FREE

FREE(ref) ==
  /\ Running
  /\ LET t == unref(mem, ref)
         header == ref - HEADER_SIZE
     IN IF t = "none"
        THEN /\ blocks' = blocks \ BlockAt(header)
             /\ calls' = << <<"free", header, 0>> >>
             /\ refs' = refs \ {ref}
             /\ UNCHANGED trapped
        ELSE /\ trapped' = t
             /\ calls' = <<>>
             /\ UNCHANGED <<blocks, refs>>
  /\ last' = [op |-> "FREE", ref |-> ref, n |-> 0, old |-> 0, ret |-> 0]
  /\ UNCHANGED <<GC, mem>>

----------------------------------------------------------------------------
\* The collector behind gc.register / gc.link: a registered object is put on
\* the collector's list, which leaves both of its link fields non-zero.

GcListHead == 8
gcRegister(m, ref) ==
  LET header == ref - HEADER_SIZE
  IN Store32(Store32(m, header + OffGc1, U32(GcListHead)), header + OffGc2, U32(GcListHead))

----------------------------------------------------------------------------
\* REGISTER<T>

\* lines 116-117: the class id, then the collector's bookkeeping
RegisterImage_NoClassId(m, ref, T) == IF GC THEN gcRegister(m, ref) ELSE m
RegisterImage(m, ref, T) ==
  LET m1 == Store32(m, ref - HEADER_SIZE + OffClassId, gcClassId(T))
  IN IF GC THEN gcRegister(m1, ref) ELSE m1

REGISTER(ref, T) ==
  /\ Running
  /\ LET t == unref(mem, ref)
     IN IF t = "none"
        THEN /\ mem' = RegisterImage(mem, ref, T)
             /\ calls' = IF GC THEN << <<"gc.register", ref, 0>> >> ELSE <<>>
             /\ last' = [op |-> "REGISTER", ref |-> ref, n |-> T, old |-> 0, ret |-> ref]
             /\ UNCHANGED trapped
        ELSE /\ trapped' = t
             /\ calls' = <<>>
             /\ last' = [op |-> "REGISTER", ref |-> ref, n |-> T, old |-> 0, ret |-> 0]
             /\ UNCHANGED mem
  /\ UNCHANGED <<GC, blocks, refs>>

----------------------------------------------------------------------------
\* LINK

\* line 125: must be registered
IsRegistered(m, header) ==
  /\ classIdOf(m, header) # HEADER_MAGIC
  /\ gc1Of(m, header) # U32(0)
  /\ gc2Of(m, header) # U32(0)

LinkTrap(m, ref) ==
  IF ~(ref >= HEAP_BASE + HEADER_SIZE) THEN "must be a heap object"
  ELSE IF ~IsRegistered(m, ref - HEADER_SIZE) THEN "must be registered"
  ELSE "none"

LINK(ref, parentRef) ==
  /\ Running
  /\ LET t == LinkTrap(mem, ref)
     IN /\ trapped' = t
        /\ calls' = IF t = "none" /\ GC THEN << <<"gc.link", ref, parentRef>> >> ELSE <<>>
  /\ last' = [op |-> "LINK", ref |-> ref, n |-> parentRef, old |-> 0, ret |-> 0]
  /\ UNCHANGED <<GC, mem, blocks, refs>>

----------------------------------------------------------------------------
\* REALLOC

\* line 70: move if the allocation isn't large enough or not a heap object
ReallocMoves_IgnoreHeapBase(ref, payloadSize, newPayloadSize) ==
  ADJUST(payloadSize) < ADJUST(newPayloadSize)
ReallocMoves_Never(ref, payloadSize, newPayloadSize) == FALSE
ReallocMoves_Always(ref, payloadSize, newPayloadSize) == TRUE
ReallocMoves(ref, payloadSize, newPayloadSize) ==
  (IF ref > HEAP_BASE THEN ADJUST(payloadSize) ELSE 0) < ADJUST(newPayloadSize)

\* line 81: free right away if not registered yet
ReallocFreesOld_Always(m, header) == TRUE
ReallocFreesOld_Never(m, header) == FALSE
ReallocFreesOld(m, header) == classIdOf(m, header) = HEADER_MAGIC

\* line 72: the new block is allocated while the old one is still live
MoveBlock_AfterFree(header, size) ==
  LET free == {a \in Layout[GC].starts :
                 /\ a + size <= MemSize
                 /\ \A b \in blocks \ BlockAt(header) : ~Overlaps(a, size, b)}
  IN CHOOSE a \in free : \A c \in free : a <= c
MoveBlock(header, size) == allocate(size)

\* lines 73-80: the new header, the copied payload and the zeroed tail
MoveImage_KeepsClassId(m, ref, newBlock, payloadSize, newPayloadSize) ==
  LET m1 == Store32(m, newBlock + OffClassId, classIdOf(m, ref - HEADER_SIZE))
      m2 == IF GC THEN Store32(Store32(m1, newBlock + OffGc1, U32(0)),
                               newBlock + OffGc2, U32(0))
                  ELSE m1
      newRef == newBlock + HEADER_SIZE
      m3 == copy(m2, newRef, ref, payloadSize)
  IN fill(m3, newRef + payloadSize, 0, newPayloadSize - payloadSize)
MoveImage_NoCopy(m, ref, newBlock, payloadSize, newPayloadSize) ==
  LET m1 == Store32(m, newBlock + OffClassId, HEADER_MAGIC)
      m2 == IF GC THEN Store32(Store32(m1, newBlock + OffGc1, U32(0)),
                               newBlock + OffGc2, U32(0))
                  ELSE m1
      newRef == newBlock + HEADER_SIZE
  IN fill(m2, newRef + payloadSize, 0, newPayloadSize - payloadSize)
MoveImage(m, ref, newBlock, payloadSize, newPayloadSize) ==
  LET m1 == Store32(m, newBlock + OffClassId, HEADER_MAGIC)
      m2 == IF GC THEN Store32(Store32(m1, newBlock + OffGc1, U32(0)),
                               newBlock + OffGc2, U32(0))
                  ELSE m1
      newRef == newBlock + HEADER_SIZE
      m3 == copy(m2, newRef, ref, payloadSize)
  IN fill(m3, newRef + payloadSize, 0, newPayloadSize - payloadSize)

\* line 90: clear additional memory within this block
GrowImage_NoFill(m, ref, payloadSize, newPayloadSize) == m
GrowImage(m, ref, payloadSize, newPayloadSize) ==
  fill(m, ref + payloadSize, 0, newPayloadSize - payloadSize)

\* lines 93-96: the same size or less touches nothing but the header
ShrinkImage_ClearsTail(m, ref, payloadSize, newPayloadSize) ==
  fill(m, ref + newPayloadSize, 0, payloadSize - newPayloadSize)
ShrinkImage(m, ref, payloadSize, newPayloadSize) == m

REALLOC(ref, newPayloadSize) ==
  /\ Running
  /\ LET header == ref - HEADER_SIZE
         payloadSize == payloadSizeOf(mem, header)
         newAdjustedSize == ADJUST(newPayloadSize)
         done(r) == [op |-> "REALLOC", ref |-> ref, n |-> newPayloadSize,
                     old |-> payloadSize, ret |-> r]
     IN IF payloadSize < newPayloadSize
        THEN IF ReallocMoves(ref, payloadSize, newPayloadSize)
             THEN /\ CanAllocate(newAdjustedSize)
                  /\ LET newBlock == MoveBlock(header, newAdjustedSize)
                         newRef == newBlock + HEADER_SIZE
                         m4 == MoveImage(mem, ref, newBlock, payloadSize, newPayloadSize)
                         got == <<"allocate", newAdjustedSize, newBlock>>
                     IN IF ReallocFreesOld(mem, header) /\ ~(ref > HEAP_BASE)
                        THEN /\ trapped' = "static objects aren't scratch objects"
                             /\ mem' = m4
                             /\ blocks' = blocks \cup {<<newBlock, newAdjustedSize>>}
                             /\ calls' = <<got>>
                             /\ last' = done(0)
                             /\ UNCHANGED refs
                        ELSE /\ mem' = Store32(m4, newBlock + OffPayloadSize, U32(newPayloadSize))
                             /\ blocks' = IF ReallocFreesOld(mem, header)
                                          THEN (blocks \ BlockAt(header))
                                                 \cup {<<newBlock, newAdjustedSize>>}
                                          ELSE blocks \cup {<<newBlock, newAdjustedSize>>}
                             /\ calls' = IF ReallocFreesOld(mem, header)
                                         THEN <<got, <<"free", header, 0>> >>
                                         ELSE <<got>>
                             /\ refs' = (refs \ {ref}) \cup {newRef}
                             /\ last' = done(newRef)
                             /\ UNCHANGED trapped
             ELSE /\ mem' = Store32(GrowImage(mem, ref, payloadSize, newPayloadSize),
                                    header + OffPayloadSize, U32(newPayloadSize))
                  /\ calls' = <<>>
                  /\ last' = done(ref)
                  /\ UNCHANGED <<blocks, refs, trapped>>
        ELSE /\ mem' = Store32(ShrinkImage(mem, ref, payloadSize, newPayloadSize),
                               header + OffPayloadSize, U32(newPayloadSize))
             /\ calls' = <<>>
             /\ last' = done(ref)
             /\ UNCHANGED <<blocks, refs, trapped>>
  /\ UNCHANGED GC

----------------------------------------------------------------------------
\* Pointers the caller may pass: those it holds, and the static object's.
Passable == refs \cup {StaticRef}

Next ==
  \/ \E n \in PayloadSizes : ALLOC(n) /\ UNCHANGED <<e2e, rep>>
  \/ \E r \in refs : WRITE(r) /\ UNCHANGED <<e2e, rep>>
  \/ \E r \in Passable, n \in PayloadSizes : REALLOC(r, n) /\ UNCHANGED <<e2e, rep>>
  \/ \E r \in Passable : FREE(r) /\ UNCHANGED <<e2e, rep>>
  \/ \E r \in Passable, T \in Types : REGISTER(r, T) /\ UNCHANGED <<e2e, rep>>
  \/ \E r \in Passable, p \in Passable : LINK(r, p) /\ UNCHANGED <<e2e, rep>>

Spec == Init /\ [][Next]_vars

----------------------------------------------------------------------------
\* ADJUST on its own: the sizes 0 .. MaxSmallPayload and those around every
\* power of two up to the largest payload, MAX_SIZE_32 - HEADER_SIZE.

AdjustInputs ==
  {p \in (0..MaxSmallPayload) \cup
         {2 ^ k - HEADER_SIZE + d : k \in 5..30, d \in {-1, 0, 1}} :
     p <= MAX_SIZE_32 - HEADER_SIZE}

ADJUST_Call(payloadSize) ==
  /\ last' = [op |-> "ADJUST", ref |-> 0, n |-> payloadSize, old |-> 0,
              ret |-> ADJUST(payloadSize)]
  /\ UNCHANGED <<GC, mem, blocks, refs, calls, trapped, nops, e2e, rep>>

NextAdjust == \E p \in AdjustInputs : ADJUST_Call(p)

SpecAdjust == Init /\ [][NextAdjust]_vars

----------------------------------------------------------------------------
\* The end-to-end scenario on a build without collector: ALLOC(10), REALLOC
\* to 40, REGISTER, FREE on one object, while the rest of the program goes on
\* working with its own pointers.  e2e records the pointer ALLOC returned,
\* the pointer REALLOC returned, the class registered, and a 0 for the FREE.

E2E_ALLOC ==
  /\ Len(e2e) = 0
  /\ ALLOC(10)
  /\ e2e' = <<last'.ret>>
  /\ UNCHANGED rep
E2E_REALLOC ==
  /\ Len(e2e) = 1
  /\ REALLOC(e2e[1], 40)
  /\ e2e' = Append(e2e, last'.ret)
  /\ UNCHANGED rep
E2E_REGISTER ==
  /\ Len(e2e) = 2
  /\ \E T \in Types : REGISTER(e2e[2], T) /\ e2e' = Append(e2e, T)
  /\ UNCHANGED rep
E2E_FREE ==
  /\ Len(e2e) = 3
  /\ FREE(e2e[2])
  /\ e2e' = Append(e2e, 0)
  /\ UNCHANGED rep

\* the scenario's live pointer
E2E_Ptr == IF Len(e2e) = 0 THEN {} ELSE IF Len(e2e) = 1 THEN {e2e[1]} ELSE {e2e[2]}
Others == Passable \ E2E_Ptr

NextE2E ==
  \/ E2E_ALLOC
  \/ E2E_REALLOC
  \/ E2E_REGISTER
  \/ E2E_FREE
  \/ \E n \in PayloadSizes : ALLOC(n) /\ UNCHANGED <<e2e, rep>>
  \/ \E r \in refs \ E2E_Ptr : WRITE(r) /\ UNCHANGED <<e2e, rep>>
  \/ \E r \in Others, n \in PayloadSizes : REALLOC(r, n) /\ UNCHANGED <<e2e, rep>>
  \/ \E r \in Others : FREE(r) /\ UNCHANGED <<e2e, rep>>
  \/ \E r \in Others, T \in Types : REGISTER(r, T) /\ UNCHANGED <<e2e, rep>>
  \/ \E r \in Others, p \in Passable : LINK(r, p) /\ UNCHANGED <<e2e, rep>>

SpecE2E == InitWith({FALSE}) /\ [][NextE2E]_vars

----------------------------------------------------------------------------
\* The round trip: at some point of a run an object of n bytes is grown by
\* REALLOC to m > n, and the pointer that returned is shrunk by REALLOC back
\* to n, while the rest of the program goes on working with its own
\* pointers.  e2e records the object's pointer, n and its n bytes before the
\* round trip, then the pointers the two REALLOCs returned.

RT_Grow ==
  /\ Len(e2e) = 0
  /\ \E r \in Passable, m \in PayloadSizes :
       LET n == payloadSizeOf(mem, r - HEADER_SIZE)
       IN /\ n < m
          /\ REALLOC(r, m)
          /\ e2e' = <<r, n, SubSeq(mem, r + 1, r + n), last'.ret>>
  /\ UNCHANGED rep
RT_Shrink ==
  /\ Len(e2e) = 4
  /\ REALLOC(e2e[4], e2e[2])
  /\ e2e' = Append(e2e, last'.ret)
  /\ UNCHANGED rep

\* the object of the round trip
RT_Ptr == IF Len(e2e) = 0 THEN {} ELSE IF Len(e2e) = 4 THEN {e2e[4]} ELSE {e2e[5]}
RT_Others == Passable \ RT_Ptr

NextRoundTrip ==
  \/ RT_Grow
  \/ RT_Shrink
  \/ \E n \in PayloadSizes : ALLOC(n) /\ UNCHANGED <<e2e, rep>>
  \/ \E r \in refs \ RT_Ptr : WRITE(r) /\ UNCHANGED <<e2e, rep>>
  \/ \E r \in RT_Others, n \in PayloadSizes : REALLOC(r, n) /\ UNCHANGED <<e2e, rep>>
  \/ \E r \in RT_Others : FREE(r) /\ UNCHANGED <<e2e, rep>>
  \/ \E r \in RT_Others, T \in Types : REGISTER(r, T) /\ UNCHANGED <<e2e, rep>>
  \/ \E r \in RT_Others, p \in Passable : LINK(r, p) /\ UNCHANGED <<e2e, rep>>

SpecRoundTrip == Init /\ [][NextRoundTrip]_vars
----------------------------------------------------------------------------
\* memory.repeat, one action per step of its loop, on a small memory whose
\* bytes are all different.  The arguments stay inside the memory, so that
\* srcLength * count is far from the 32 bits of usize.

\* number of bytes of the memory that memory.repeat works on
RepeatMemSize == 16
\* largest srcLength and largest count passed to memory.repeat
MaxSrcLength == 3
MaxCount == 3

RepeatMem == [i \in 1..RepeatMemSize |-> i]
RepeatSrcs == {0, 6}

\* line 179: the loop's condition
repeatContinues_Inclusive(index, total) == index <= total
repeatContinues(index, total) == index < total

\* lines 177-178
repeat(dst, src, srcLength, count) ==
  /\ rep.pc = "idle"
  /\ src + srcLength <= RepeatMemSize
  /\ dst + srcLength * count <= RepeatMemSize
  /\ rep' = [pc |-> "loop", dst |-> dst, src |-> src, srcLength |-> srcLength,
             count |-> count, index |-> 0, total |-> srcLength * count,
             copies |-> 0]
  /\ UNCHANGED <<GC, mem, blocks, refs, calls, last, trapped, nops, e2e>>

\* lines 179-182: one turn of the loop
repeat_while ==
  /\ rep.pc = "loop"
  /\ repeatContinues(rep.index, rep.total)
  /\ mem' = copy(mem, rep.dst + rep.index, rep.src, rep.srcLength)
  /\ rep' = [rep EXCEPT !.index = rep.index + rep.srcLength,
                        !.copies = rep.copies + 1]
  /\ UNCHANGED <<GC, blocks, refs, calls, last, trapped, nops, e2e>>

\* line 183: the loop is left and the function returns
repeat_return ==
  /\ rep.pc = "loop"
  /\ ~repeatContinues(rep.index, rep.total)
  /\ rep' = [rep EXCEPT !.pc = "done"]
  /\ UNCHANGED <<GC, mem, blocks, refs, calls, last, trapped, nops, e2e>>

InitRepeat ==
  /\ GC = FALSE
  /\ mem = RepeatMem
  /\ blocks = {}
  /\ refs = {}
  /\ calls = <<>>
  /\ last = NoOp
  /\ trapped = "none"
  /\ nops = 0
  /\ e2e = <<>>
  /\ rep = RepIdle

NextRepeat ==
  \/ \E dst \in 0..RepeatMemSize, src \in RepeatSrcs,
        srcLength \in 0..MaxSrcLength, count \in 0..MaxCount :
       repeat(dst, src, srcLength, count)
  \/ repeat_while
  \/ repeat_return

\* a call that has begun keeps running
SpecRepeat ==
  InitRepeat /\ [][NextRepeat]_vars /\ WF_vars(repeat_while \/ repeat_return)

----------------------------------------------------------------------------
\* The views of the header: ArrayBufferBase#byteLength and StringBase#length,
\* read through pointers that ALLOC and REALLOC returned for sizes that are
\* zero, odd and even.

byteLength(m, this) == payloadSizeOf(m, this - HEADER_SIZE)
\* payloadSize >> 1
length_NoShift(m, this) == payloadSizeOf(m, this - HEADER_SIZE)
length(m, this) == payloadSizeOf(m, this - HEADER_SIZE) \div 2

ViewSizes == {0, 7, 13, 40}

NextViews ==
  \/ \E n \in ViewSizes : ALLOC(n) /\ UNCHANGED <<e2e, rep>>
  \/ \E r \in Passable, n \in ViewSizes : REALLOC(r, n) /\ UNCHANGED <<e2e, rep>>

SpecViews == Init /\ [][NextViews]_vars

----------------------------------------------------------------------------
\* Vocabulary of the properties.

HeaderOf(ref) == ref - HEADER_SIZE
IsHeapRef(ref) == ref >= HEAP_BASE + HEADER_SIZE
\* the payload bytes [from, to) of the object at ref, in memory m
Payload(m, ref, from, to) == SubSeq(m, ref + from + 1, ref + to)
Zeros(n) == [i \in 1..n |-> 0]
Frees(cs) == {i \in 1..Len(cs) : cs[i][1] = "free"}
IsPow2(x) == \E k \in 0..30 : x = 2 ^ k

\* the step just taken was a REALLOC that asked for more than the object had
GrowingREALLOC == last'.op = "REALLOC" /\ last'.old < last'.n
\* ... on a heap object that is still Uncommitted
GrowingScratch ==
  /\ GrowingREALLOC
  /\ last'.ref > HEAP_BASE
  /\ classIdOf(mem, HeaderOf(last'.ref)) = HEADER_MAGIC

----------------------------------------------------------------------------
\* C1: for every payload size up to MAX_SIZE_32 - HEADER_SIZE, with the half
\* or the full header, ADJUST returns a power of two, at least
\* payloadSize + HEADER_SIZE, the smallest such, and at most 2^30.
C1_AdjustSmallestPow2 ==
  last.op = "ADJUST" =>
    /\ IsPow2(last.ret)
    /\ last.ret >= last.n + HEADER_SIZE
    /\ last.ret > 1 => last.ret \div 2 < last.n + HEADER_SIZE
    /\ last.ret <= MAX_SIZE_32

\* the largest payload is rounded to exactly 2^30
C1_Witness ==
  /\ last.op = "ADJUST"
  /\ last.n = MAX_SIZE_32 - HEADER_SIZE
  /\ last.ret = MAX_SIZE_32

----------------------------------------------------------------------------
\* C2: ALLOC(n) asks the memory manager for exactly one block of ADJUST(n)
\* bytes and returns block + HEADER_SIZE; the header before it holds
\* HEADER_MAGIC and n (and zero gc fields in a collector build), and the n
\* payload bytes are zero whatever the block held before.
C2_AllocHeaderAndZeroedPayload ==
  last.op = "ALLOC" =>
    LET block == HeaderOf(last.ret)
    IN /\ calls = << <<"allocate", ADJUST(last.n), block>> >>
       /\ <<block, ADJUST(last.n)>> \in blocks
       /\ classIdOf(mem, block) = HEADER_MAGIC
       /\ payloadSizeOf(mem, block) = last.n
       /\ GC => gc1Of(mem, block) = U32(0) /\ gc2Of(mem, block) = U32(0)
       /\ Payload(mem, last.ret, 0, last.n) = Zeros(last.n)

\* an ALLOC into a block that was used before: what lies behind the new
\* payload, inside the block, is still the old data
C2_Witness ==
  /\ last.op = "ALLOC"
  /\ \E i \in last.n..(ADJUST(last.n) - HEADER_SIZE - 1) : Load8(mem, last.ret + i) # 0

----------------------------------------------------------------------------
\* C3: a growing REALLOC that returns gives a pointer whose first old bytes
\* are the payload as it was before the call, whose bytes from old to new are
\* zero, and whose header holds the new size, moved or not.
C3_GrowKeepsDataAndZeroesTail ==
  [][(GrowingREALLOC /\ last'.ret # 0) =>
       /\ last'.old = payloadSizeOf(mem, HeaderOf(last'.ref))
       /\ Payload(mem', last'.ret, 0, last'.old) = Payload(mem, last'.ref, 0, last'.old)
       /\ Payload(mem', last'.ret, last'.old, last'.n) = Zeros(last'.n - last'.old)
       /\ payloadSizeOf(mem', HeaderOf(last'.ret)) = last'.n]_vars

\* a written heap object was moved: its data arrived in the new block
C3_Witness ==
  /\ last.op = "REALLOC"
  /\ last.old < last.n
  /\ last.ret # 0
  /\ last.ret # last.ref
  /\ last.ref > HEAP_BASE
  /\ Payload(mem, last.ret, 0, last.old) = Data(last.ref, last.old)

----------------------------------------------------------------------------
\* C4: growing a Committed object never calls memory.free, and every block
\* that was live stays live.
C4_GrowCommittedNeverFrees ==
  [][(GrowingREALLOC /\ classIdOf(mem, HeaderOf(last'.ref)) # HEADER_MAGIC) =>
       /\ Frees(calls') = {}
       /\ blocks \subseteq blocks']_vars

\* a Committed heap object was moved
C4_Witness ==
  /\ last.op = "REALLOC"
  /\ last.old < last.n
  /\ last.ref > HEAP_BASE
  /\ last.ret \notin {0, last.ref}
  /\ classIdOf(mem, HeaderOf(last.ref)) # HEADER_MAGIC
  /\ BlockAt(HeaderOf(last.ref)) # {}

----------------------------------------------------------------------------
\* C5: FREE of a Committed object aborts, calls nothing and changes no byte;
\* FREE of an Uncommitted heap object calls memory.free once, on
\* ref - HEADER_SIZE, and the pointer is no longer one the caller may use.
C5_FreeOnlyUncommitted ==
  [][last'.op = "FREE" =>
       LET ref == last'.ref
       IN IF classIdOf(mem, HeaderOf(ref)) # HEADER_MAGIC
          THEN /\ trapped' # "none"
               /\ calls' = <<>>
               /\ mem' = mem
               /\ blocks' = blocks
          ELSE IsHeapRef(ref) =>
                 /\ trapped' = "none"
                 /\ calls' = << <<"free", HeaderOf(ref), 0>> >>
                 /\ blocks' = blocks \ BlockAt(HeaderOf(ref))
                 /\ \A b \in blocks' : b[1] # HeaderOf(ref)
                 /\ ref \notin refs']_vars

\* FREE of a Committed heap object aborted the program
C5_Witness ==
  /\ last.op = "FREE"
  /\ IsHeapRef(last.ref)
  /\ trapped = "must be unregistered"

----------------------------------------------------------------------------
\* C6: REGISTER on an Uncommitted heap object writes the class id (and tells
\* the collector in a collector build); REGISTER on the object once more
\* aborts with "must be unregistered", changes no byte and tells nobody.
C6_RegisterTwiceAborts ==
  [][(last'.op = "REGISTER" /\ IsHeapRef(last'.ref)) =>
       LET ref == last'.ref
       IN IF classIdOf(mem, HeaderOf(ref)) = HEADER_MAGIC
          THEN /\ trapped' = "none"
               /\ classIdOf(mem', HeaderOf(ref)) = gcClassId(last'.n)
               /\ calls' = IF GC THEN << <<"gc.register", ref, 0>> >> ELSE <<>>
          ELSE /\ trapped' = "must be unregistered"
               /\ mem' = mem
               /\ calls' = <<>>]_vars

\* the second REGISTER on a heap object aborted the program
C6_Witness ==
  /\ last.op = "REGISTER"
  /\ IsHeapRef(last.ref)
  /\ trapped = "must be unregistered"
  /\ classIdOf(mem, HeaderOf(last.ref)) \in {gcClassId(T) : T \in Types}

----------------------------------------------------------------------------
\* C7: LINK on a heap object that is not registered aborts and never calls
\* gc.link; LINK on a registered one succeeds with and without collector,
\* and calls gc.link exactly in the collector build.
C7_LinkAfterRegisterSucceeds ==
  [][(last'.op = "LINK" /\ IsHeapRef(last'.ref)) =>
       IF classIdOf(mem, HeaderOf(last'.ref)) = HEADER_MAGIC
       THEN /\ trapped' # "none"
            /\ calls' = <<>>
       ELSE /\ trapped' = "none"
            /\ calls' = IF GC THEN << <<"gc.link", last'.ref, last'.n>> >> ELSE <<>>]_vars

----------------------------------------------------------------------------
\* C8: growing an Uncommitted heap object whose block already covers the new
\* size, ADJUST(old) >= ADJUST(new), returns the same pointer and calls
\* neither memory.allocate nor memory.free.
C8_GrowInPlace ==
  [][(GrowingScratch /\ ADJUST(last'.old) >= ADJUST(last'.n)) =>
       /\ last'.ret = last'.ref
       /\ calls' = <<>>
       /\ blocks' = blocks]_vars

\* an Uncommitted heap object grew in place
C8_Witness ==
  /\ last.op = "REALLOC"
  /\ last.old < last.n
  /\ last.ref > HEAP_BASE
  /\ last.ret = last.ref
  /\ classIdOf(mem, HeaderOf(last.ref)) = HEADER_MAGIC
  /\ ADJUST(last.old) = ADJUST(last.n)

----------------------------------------------------------------------------
\* C9: growing an Uncommitted heap object whose block is too small,
\* ADJUST(old) < ADJUST(new), returns another pointer, in a block of
\* ADJUST(new) bytes that was not live before, and hands the old block back
\* to the memory manager exactly once.
C9_GrowByMoving ==
  [][(GrowingScratch /\ ADJUST(last'.old) < ADJUST(last'.n)) =>
       LET newBlock == HeaderOf(last'.ret)
           oldBlock == HeaderOf(last'.ref)
       IN /\ last'.ret \notin {0, last'.ref}
          /\ calls' = << <<"allocate", ADJUST(last'.n), newBlock>>,
                         <<"free", oldBlock, 0>> >>
          /\ \A b \in blocks : ~Overlaps(newBlock, ADJUST(last'.n), b)
          /\ BlockAt(oldBlock) # {}
          /\ blocks' = (blocks \ BlockAt(oldBlock)) \cup {<<newBlock, ADJUST(last'.n)>>}]_vars

\* an Uncommitted heap object was moved and its old block released
C9_Witness ==
  /\ last.op = "REALLOC"
  /\ last.old < last.n
  /\ last.ref > HEAP_BASE
  /\ last.ret \notin {0, last.ref}
  /\ Frees(calls) # {}

----------------------------------------------------------------------------
\* C10, as the spec states it: with the 8-byte header, ALLOC(10) gives
\* payloadSize 10; REALLOC to 40 does not move the object, ADJUST(10) = 64
\* covering ADJUST(40) = 64, and bytes 10..40 are zero; REGISTER sets the
\* class id; FREE then aborts.
C10_AsStated ==
  /\ HEADER_SIZE = 8
  /\ Len(e2e) = 1 => payloadSizeOf(mem, HeaderOf(e2e[1])) = 10
  /\ Len(e2e) >= 2 =>
       /\ ADJUST(10) = 64 /\ ADJUST(40) = 64
       /\ e2e[2] = e2e[1]
       /\ Payload(mem, e2e[2], 10, 40) = Zeros(30)
  /\ Len(e2e) = 3 => classIdOf(mem, HeaderOf(e2e[2])) = gcClassId(e2e[3])
  /\ Len(e2e) = 4 => trapped = "must be unregistered" /\ calls = <<>>

\* C10, amended: with the 8-byte header, ALLOC(10) gives payloadSize 10;
\* REALLOC to 40 moves the object, ADJUST(10) = 32 being less than
\* ADJUST(40) = 64, the returned pointer has payloadSize 40 and bytes 10..40
\* zero; REGISTER of the returned pointer sets the class id; FREE of it then
\* aborts.
C10_EndToEndMoves ==
  /\ HEADER_SIZE = 8
  /\ Len(e2e) = 1 => payloadSizeOf(mem, HeaderOf(e2e[1])) = 10
  /\ Len(e2e) >= 2 =>
       /\ ADJUST(10) = 32 /\ ADJUST(40) = 64
       /\ e2e[2] # e2e[1]
       /\ payloadSizeOf(mem, HeaderOf(e2e[2])) = 40
       /\ Payload(mem, e2e[2], 10, 40) = Zeros(30)
  /\ Len(e2e) = 3 => classIdOf(mem, HeaderOf(e2e[2])) = gcClassId(e2e[3])
  /\ Len(e2e) = 4 => trapped = "must be unregistered" /\ calls = <<>>

\* the scenario ran to its end: the FREE aborted the program
C10_Witness ==
  /\ Len(e2e) = 4
  /\ last.op = "FREE"
  /\ last.ref = e2e[2]
  /\ trapped = "must be unregistered"

----------------------------------------------------------------------------
\* C11: a live block whose header carries a class id keeps carrying one:
\* no step of ALLOC, REALLOC, FREE, REGISTER or LINK puts HEADER_MAGIC back
\* into it, takes the block out of the live set, or calls memory.free on it.
C11_CommittedStaysCommitted ==
  [][\A b \in blocks :
       classIdOf(mem, b[1]) # HEADER_MAGIC =>
         /\ classIdOf(mem', b[1]) # HEADER_MAGIC
         /\ b \in blocks'
         /\ \A i \in Frees(calls') : calls'[i][2] # b[1]]_vars

\* a Committed heap object went through a shrinking REALLOC and is still
\* Committed and live
C11_Witness ==
  /\ last.op = "REALLOC"
  /\ last.n < last.old
  /\ last.ref > HEAP_BASE
  /\ classIdOf(mem, HeaderOf(last.ref)) # HEADER_MAGIC
  /\ BlockAt(HeaderOf(last.ref)) # {}

----------------------------------------------------------------------------
\* C12: every pointer the caller holds is the payload of a live block, and
\* in every live block the header and the payload it announces fit:
\* payloadSize + HEADER_SIZE <= size of the block that was requested for it.
\* (The block a REALLOC of the static object was setting up when it aborted
\* has no payloadSize yet.)
C12_PayloadFitsBlock ==
  /\ \A r \in refs : BlockAt(HeaderOf(r)) # {}
  /\ trapped # "static objects aren't scratch objects" =>
       \A b \in blocks : payloadSizeOf(mem, b[1]) + HEADER_SIZE <= b[2]

\* an object shrank and then grew again in place, inside a block larger than
\* the new size alone would have been given
C12_Witness ==
  /\ last.op = "REALLOC"
  /\ last.old < last.n
  /\ last.ret = last.ref
  /\ \E b \in BlockAt(HeaderOf(last.ref)) : ADJUST(last.n) < b[2]

----------------------------------------------------------------------------
\* C13: after REALLOC from n to m > n and REALLOC of the returned pointer
\* back to n, the object has payloadSize n and holds the n bytes it held
\* before the round trip, whether the first REALLOC moved it or not; the
\* second REALLOC returns the pointer it was given.
C13_RoundTripKeepsBytes ==
  Len(e2e) = 5 =>
    /\ e2e[5] = e2e[4]
    /\ payloadSizeOf(mem, HeaderOf(e2e[5])) = e2e[2]
    /\ Payload(mem, e2e[5], 0, e2e[2]) = e2e[3]

\* the round trip of a written heap object that the first REALLOC moved
C13_Witness ==
  /\ Len(e2e) = 5
  /\ e2e[1] > HEAP_BASE
  /\ e2e[4] # e2e[1]
  /\ e2e[3] = Data(e2e[1], e2e[2])

----------------------------------------------------------------------------
\* C14: REALLOC to a size not above the current payloadSize returns the
\* pointer it was given and calls neither memory.allocate nor memory.free;
\* afterwards the header holds the new payloadSize, and every other byte of
\* memory (classId, the gc fields, the whole payload) is as it was.
C14_ShrinkTouchesOnlyPayloadSize ==
  [][(last'.op = "REALLOC" /\ last'.n <= payloadSizeOf(mem, HeaderOf(last'.ref))) =>
       LET at == HeaderOf(last'.ref) + OffPayloadSize
       IN /\ last'.ret = last'.ref
          /\ trapped' = "none"
          /\ calls' = <<>>
          /\ blocks' = blocks
          /\ payloadSizeOf(mem', HeaderOf(last'.ref)) = last'.n
          /\ SubSeq(mem', 1, at) = SubSeq(mem, 1, at)
          /\ SubSeq(mem', at + 5, Len(mem')) = SubSeq(mem, at + 5, Len(mem))
          /\ Len(mem') = Len(mem)]_vars

\* a written heap object was shrunk: the bytes behind the new size are still
\* the data
C14_Witness ==
  /\ last.op = "REALLOC"
  /\ last.n < last.old
  /\ last.ret = last.ref
  /\ payloadSizeOf(mem, HeaderOf(last.ref)) = last.n
  /\ Payload(mem, last.ref, 0, last.old) = Data(last.ref, last.old)

----------------------------------------------------------------------------
\* C15: through the pointer that the last ALLOC or REALLOC of a run returned
\* for the requested size n, byteLength reads n and length reads
\* floor(n / 2).
C15_ViewsFollowPayloadSize ==
  (last.op \in {"ALLOC", "REALLOC"} /\ last.ret # 0) =>
    /\ byteLength(mem, last.ret) = last.n
    /\ 2 * length(mem, last.ret) <= last.n
    /\ last.n < 2 * length(mem, last.ret) + 2

\* a heap object was moved to an odd size: the length is rounded down
C15_Witness ==
  /\ last.op = "REALLOC"
  /\ last.ref > HEAP_BASE
  /\ last.ret \notin {0, last.ref}
  /\ last.n = 13
  /\ byteLength(mem, last.ret) = 13
  /\ length(mem, last.ret) = 6

----------------------------------------------------------------------------
\* C16: a growing REALLOC of the statically placed object makes exactly one
\* memory manager call, the allocation of a block of ADJUST(new) bytes that
\* was not live, and never a free; the old payload arrives in the new block
\* and no byte below HEAP_BASE changes.  If the static header holds
\* HEADER_MAGIC the operation then aborts with "static objects aren't
\* scratch objects"; otherwise it returns the new block's payload.
C16_StaticNeverGrownInPlace ==
  [][(GrowingREALLOC /\ last'.ref <= HEAP_BASE) =>
       /\ Len(calls') = 1
       /\ LET newBlock == calls'[1][3]
              newRef == newBlock + HEADER_SIZE
          IN /\ calls'[1] = <<"allocate", ADJUST(last'.n), newBlock>>
             /\ newBlock >= HEAP_BASE
             /\ blocks' = blocks \cup {<<newBlock, ADJUST(last'.n)>>}
             /\ <<newBlock, ADJUST(last'.n)>> \notin blocks
             /\ Payload(mem', newRef, 0, last'.old) = Payload(mem, last'.ref, 0, last'.old)
             /\ SubSeq(mem', 1, HEAP_BASE) = SubSeq(mem, 1, HEAP_BASE)
             /\ IF classIdOf(mem, HeaderOf(last'.ref)) = HEADER_MAGIC
                THEN trapped' = "static objects aren't scratch objects" /\ last'.ret = 0
                ELSE trapped' = "none" /\ last'.ret = newRef]_vars

\* the static object was moved to the heap although the size computed from
\* its old payload would have covered the new one
C16_Witness ==
  /\ last.op = "REALLOC"
  /\ last.ref = StaticRef
  /\ last.old < last.n
  /\ ADJUST(last.old) >= ADJUST(last.n)
  /\ last.ret > HEAP_BASE
  /\ Payload(mem, last.ret, 0, last.old) = Data(StaticRef, StaticPayload)

----------------------------------------------------------------------------
\* the regions of the call under way do not overlap
RepeatDisjoint ==
  \/ rep.src + rep.srcLength <= rep.dst
  \/ rep.dst + rep.total <= rep.src
\* after the call, dst[i] = src[i mod srcLength] for every i < srcLength * count
RepeatTiled ==
  \A i \in 0..(rep.total - 1) :
    Load8(mem, rep.dst + i) = Load8(RepeatMem, rep.src + (i % rep.srcLength))
\* after the call, no byte outside dst .. dst + srcLength * count has changed
RepeatFrame ==
  \A a \in 0..(RepeatMemSize - 1) :
    (a < rep.dst \/ a >= rep.dst + rep.total) => Load8(mem, a) = Load8(RepeatMem, a)

\* C17, as the spec states it: every call of memory.repeat returns, also
\* with srcLength = 0 or count = 0, after exactly count copies of srcLength
\* bytes; for regions that do not overlap dst[i] = src[i mod srcLength] for
\* all i < srcLength * count, and no byte at or beyond dst + srcLength * count
\* is written.
C17_AsStated ==
  /\ [](rep.pc = "done" =>
          /\ rep.copies = rep.count
          /\ RepeatDisjoint => RepeatTiled /\ RepeatFrame)
  /\ (rep.pc = "loop" ~> rep.pc = "done")

\* C17, amended: every call of memory.repeat whose srcLength * count fits
\* usize returns, also with srcLength = 0 or count = 0, after exactly count
\* copies of srcLength bytes if srcLength > 0 and after no copy at all if
\* srcLength = 0; for regions
\* that do not overlap dst[i] = src[i mod srcLength] for all
\* i < srcLength * count, and no byte at or beyond dst + srcLength * count is
\* written.
C17_RepeatTiles ==
  /\ [](rep.pc = "done" =>
          /\ rep.copies = IF rep.srcLength > 0 THEN rep.count ELSE 0
          /\ rep.index = rep.total
          /\ RepeatDisjoint => RepeatTiled /\ RepeatFrame)
  /\ (rep.pc = "loop" ~> rep.pc = "done")

\* a call with three tiles of three bytes, regions apart, has returned
C17_Witness ==
  /\ rep.pc = "done"
  /\ rep.srcLength = MaxSrcLength
  /\ rep.count = MaxCount
  /\ rep.copies = MaxCount
  /\ RepeatDisjoint
  /\ mem # RepeatMem

----------------------------------------------------------------------------
\* C18: when a REALLOC returns another pointer than it was given, the header
\* before the returned pointer holds HEADER_MAGIC (and zero gc fields in a
\* collector build), the collector has not been called, and the pointer
\* passes the check of FREE and REGISTER, whether the old object was
\* Uncommitted or Committed; when it returns the pointer it was given, the
\* class id is the one from before.
C18_MovedObjectIsUncommitted ==
  [][(last'.op = "REALLOC" /\ last'.ret # 0) =>
       IF last'.ret # last'.ref
       THEN LET newHeader == HeaderOf(last'.ret)
            IN /\ classIdOf(mem', newHeader) = HEADER_MAGIC
               /\ GC => gc1Of(mem', newHeader) = U32(0) /\ gc2Of(mem', newHeader) = U32(0)
               /\ \A i \in 1..Len(calls') : calls'[i][1] \in {"allocate", "free"}
               /\ unref(mem', last'.ret) = "none"
       ELSE classIdOf(mem', HeaderOf(last'.ref)) = classIdOf(mem, HeaderOf(last'.ref))]_vars

\* a Committed heap object was moved: the old header still holds its class
\* id, the returned one is Uncommitted
C18_Witness ==
  /\ last.op = "REALLOC"
  /\ last.ref > HEAP_BASE
  /\ last.ret \notin {0, last.ref}
  /\ classIdOf(mem, HeaderOf(last.ref)) \in {gcClassId(T) : T \in Types}
  /\ classIdOf(mem, HeaderOf(last.ret)) = HEADER_MAGIC
  /\ unref(mem, last.ret) = "none"

----------------------------------------------------------------------------
\* C19: as long as the caller passes only pointers it holds, every call of
\* memory.free gets the start of a block that is live at that moment and
\* whose header holds HEADER_MAGIC; the block is not live afterwards, so it
\* cannot be freed again, and no operation frees more than once.
C19_FreeOnceLiveUncommitted ==
  [][/\ Cardinality(Frees(calls')) <= 1
     /\ \A i \in Frees(calls') :
          LET start == calls'[i][2]
          IN /\ BlockAt(start) # {}
             /\ classIdOf(mem, start) = HEADER_MAGIC
             /\ \A b \in blocks' : b[1] # start]_vars

\* FREE released the block of an Uncommitted heap object
C19_Witness ==
  /\ last.op = "FREE"
  /\ calls = << <<"free", HeaderOf(last.ref), 0>> >>
  /\ classIdOf(mem, HeaderOf(last.ref)) = HEADER_MAGIC
  /\ BlockAt(HeaderOf(last.ref)) = {}
  /\ last.ref \notin refs

----------------------------------------------------------------------------
\* C20: a REALLOC that moves calls memory.allocate first and memory.free, if
\* at all, second and last, and that exactly for an Uncommitted heap object.
\* The new block overlaps no block that was live before the call, the old
\* one included, so both are live together and are different blocks; the
\* old object's block is live when its payload is copied, the payload
\* arrives unchanged behind a header with HEADER_MAGIC, and the old header
\* and payload are not touched by what is written into the new block.
C20_MoveAllocatesCopiesThenFrees ==
  [][(last'.op = "REALLOC" /\ calls' # <<>>) =>
       LET ref == last'.ref
           oldBlock == HeaderOf(ref)
           size == calls'[1][2]
           newBlock == calls'[1][3]
           newRef == newBlock + HEADER_SIZE
       IN /\ calls'[1][1] = "allocate"
          /\ Frees(calls') \subseteq {2}
          /\ Len(calls') <= 2
          /\ Frees(calls') # {} <=>
               (ref > HEAP_BASE /\ classIdOf(mem, oldBlock) = HEADER_MAGIC)
          /\ Frees(calls') # {} => calls'[2] = <<"free", oldBlock, 0>>
          /\ \A b \in blocks : ~Overlaps(newBlock, size, b)
          /\ ref > HEAP_BASE =>
               /\ BlockAt(oldBlock) # {}
               /\ \E b \in BlockAt(oldBlock) : ~Overlaps(newBlock, size, b)
          /\ newBlock # oldBlock
          /\ <<newBlock, size>> \in blocks'
          /\ classIdOf(mem', newBlock) = HEADER_MAGIC
          /\ Payload(mem', newRef, 0, last'.old) = Payload(mem, ref, 0, last'.old)
          /\ SubSeq(mem', oldBlock + 1, ref + last'.old)
               = SubSeq(mem, oldBlock + 1, ref + last'.old)]_vars

\* an Uncommitted heap object was moved into a block above its old one,
\* which was released only afterwards, although the new block would have
\* fitted at the old one's place had that been released first
C20_Witness ==
  /\ last.op = "REALLOC"
  /\ last.ref > HEAP_BASE
  /\ last.ret \notin {0, last.ref}
  /\ Len(calls) = 2
  /\ calls[2] = <<"free", HeaderOf(last.ref), 0>>
  /\ HeaderOf(last.ref) < HeaderOf(last.ret)
  /\ HeaderOf(last.ref) + calls[1][2] <= MemSize
  /\ \A b \in blocks \ BlockAt(HeaderOf(last.ret)) :
       ~Overlaps(HeaderOf(last.ref), calls[1][2], b)
  /\ Payload(mem, last.ret, 0, last.old) = Data(last.ref, last.old)
====
